---- MODULE Spec2Model ----
(***************************************************************************)
(* Model of the uwp water-polygon updater: select_overlap,                 *)
(* cascade_union and merge_overlapping (update.cpp), the dedup set         *)
(* MutexProtectedSet and the chunk executor parallel_for.                  *)
(*                                                                         *)
(* Geometry.  The geometry library (boost::geometry) is outside the        *)
(* repository.  A polygon is modelled by the set of cells it covers on     *)
(* the rectilinear grid cut by the coordinate lines Lines; a cell is a     *)
(* pair <<column, row>>.  Two polygons intersect when their closures       *)
(* share a point (a cell, an edge or a corner), a polygon is within        *)
(* another when all its cells are cells of the other, and a union is the   *)
(* list of edge-connected parts of the cells of both operands.             *)
(***************************************************************************)
EXTENDS Integers, Sequences, FiniteSets, TLC

(* ------------------------------------------------------------------ *)
(* Bounds of the model.                                                *)
(* ------------------------------------------------------------------ *)

\* Largest thread-count argument given to the selection's parallel_for.
MaxThreads == 3

\* Largest value std::thread::hardware_concurrency() reports.
MaxHW == 2

\* Largest size and largest thread count for which the sub-ranges of
\* parallel_for are computed outside a run of the program.
MaxSize == 8

MaxCount == 4

\* Largest number of polygons given to cascade_union when it is called
\* alone.
MaxPolygons == 3

(* ------------------------------------------------------------------ *)
(* Geometry primitives (uwp/geometry.hpp, boost::geometry).            *)
(* ------------------------------------------------------------------ *)

\* The coordinate lines of the grid: column (and row) i spans
\* Lines[i + 1] .. Lines[i + 2].
Lines == <<0, 5, 10, 15, 20, 21>>

Width(i) == Lines[i + 2] - Lines[i + 1]

\* bg::area of one cell.
CellArea(c) == Width(c[1]) * Width(c[2])

\* The cells of the axis-aligned rectangle of columns x0..x1, rows y0..y1.
Rect(x0, y0, x1, y1) == {<<x, y>> : x \in x0..x1, y \in y0..y1}

\* Row-major order on cells.
CellLess(a, b) == a[2] < b[2] \/ (a[2] = b[2] /\ a[1] < b[1])

MinCell(S) == CHOOSE c \in S : \A d \in S : d = c \/ CellLess(c, d)

Abs(n) == IF n < 0 THEN -n ELSE n

\* Two cells sharing an edge.
EdgeAdjacent(a, b) == Abs(a[1] - b[1]) + Abs(a[2] - b[2]) = 1

\* Two cells whose closures share a point.
Touching(a, b) == Abs(a[1] - b[1]) <= 1 /\ Abs(a[2] - b[2]) <= 1

\* The cells of the grid.
Grid == (0..(Len(Lines) - 2)) \X (0..(Len(Lines) - 2))

SumArea(S) ==
  LET sum[T \in SUBSET Grid] ==
        IF T = {} THEN 0
        ELSE LET c == MinCell(T) IN CellArea(c) + sum[T \ {c}]
  IN sum[S]

\* bg::area of a polygon.
Area(p) == SumArea(p)

\* bg::return_envelope<Box>: the bounding box, as the columns and rows it spans.
Envelope(p) ==
  LET xs == {c[1] : c \in p}
      ys == {c[2] : c \in p}
  IN [x0 |-> CHOOSE x \in xs : \A z \in xs : x <= z,
      x1 |-> CHOOSE x \in xs : \A z \in xs : x >= z,
      y0 |-> CHOOSE y \in ys : \A z \in ys : y <= z,
      y1 |-> CHOOSE y \in ys : \A z \in ys : y >= z]

\* Mutant of BoxIntersects: boxes that share a border only do not count.
BoxIntersects_Open(a, b) ==
  /\ a.x0 <= b.x1 /\ b.x0 <= a.x1
  /\ a.y0 <= b.y1 /\ b.y0 <= a.y1

\* bg::index::intersects on two boxes (closed boxes: a shared border counts).
BoxIntersects(a, b) ==
  /\ a.x0 <= b.x1 + 1 /\ b.x0 <= a.x1 + 1
  /\ a.y0 <= b.y1 + 1 /\ b.y0 <= a.y1 + 1

\* bg::intersects(a, b): the two polygons share at least one point.
Intersects(a, b) == \E c \in a, d \in b : Touching(c, d)

\* Mutant of Within: a lies inside the bounding box of b.
Within_Envelope(a, b) ==
  /\ a # {}
  /\ \A c \in a : /\ Envelope(b).x0 <= c[1] /\ c[1] <= Envelope(b).x1
                  /\ Envelope(b).y0 <= c[2] /\ c[2] <= Envelope(b).y1

\* bg::within(a, b): a lies inside b.
Within(a, b) == a # {} /\ a \subseteq b

\* The edge-connected part of S reachable from the cells of frontier.
Flood(S, part) ==
  LET flood[reached \in SUBSET Grid] ==
        LET more == {c \in S \ reached : \E d \in reached : EdgeAdjacent(c, d)}
        IN IF more = {} THEN reached ELSE flood[reached \cup more]
  IN flood[part]

\* The edge-connected parts of a set of cells, in row-major order of their
\* first cell: the polygons of a multi-polygon.
Components(S) ==
  LET rest[T \in SUBSET Grid] ==
        IF T = {} THEN <<>>
        ELSE LET part == Flood(T, {MinCell(T)})
             IN <<part>> \o rest[T \ part]
  IN rest[S]

\* All cells of a list of polygons.
Cells(ps) == UNION {ps[i] : i \in 1..Len(ps)}

\* Mutant of union_: the second operand is lost.
union_FirstOnly(a, b) == Components(a)

\* bg::union_(a, b, out) on two polygons: the parts of the union.
union_(a, b) == Components(a \cup b)

\* bg::area of a multi-polygon.
MultiArea(mp) ==
  LET sum[k \in 0..Len(mp)] == IF k = 0 THEN 0 ELSE sum[k - 1] + Area(mp[k])
  IN sum[Len(mp)]


(* ------------------------------------------------------------------ *)
(* cascade_union (update.cpp).                                         *)
(* ------------------------------------------------------------------ *)

\* Mutant of multi_polygon_union: the second operand is lost.
multi_polygon_union_FirstOnly(mpoly1, mpoly2) == Components(Cells(mpoly1))

\* multi_polygon_union: bg::union_ of two multi-polygons.
multi_polygon_union(mpoly1, mpoly2) == Components(Cells(mpoly1) \cup Cells(mpoly2))

\* Mutant of CompareArea: the comparison is reversed.
CompareArea_Less(a, b) == MultiArea(a) < MultiArea(b)

\* CompareArea::operator(): a is ordered before b when its area is larger,
\* so that the top of the priority queue is an element of least area.
CompareArea(a, b) == MultiArea(a) > MultiArea(b)

\* polygon_queue.top(): the position of the top element of the queue.
TopIndex(q) ==
  CHOOSE i \in 1..Len(q) :
    /\ \A j \in 1..Len(q) : ~CompareArea(q[i], q[j])
    /\ \A j \in 1..(i - 1) : CompareArea(q[j], q[i])

\* polygon_queue.pop(): the queue without its top element.
Pop(q) ==
  LET i == TopIndex(q)
  IN [j \in 1..(Len(q) - 1) |-> IF j < i THEN q[j] ELSE q[j + 1]]

\* The while loop of cascade_union: the two top elements are replaced by
\* their union until one element is left; that element is returned.
CascadeLoop(polygon_queue) ==
  LET while[queue \in Seq(Seq(SUBSET Grid))] ==
        IF Len(queue) > 1
        THEN LET mpoly1 == queue[TopIndex(queue)]
                 q1     == Pop(queue)
                 mpoly2 == q1[TopIndex(q1)]
                 q2     == Pop(q1)
             IN while[Append(q2, multi_polygon_union(mpoly1, mpoly2))]
        ELSE queue[1]
  IN while[polygon_queue]

\* Mutant of InitialQueue: every polygon is pushed as the union of itself.
InitialQueue_Unioned(polygons) ==
  [i \in 1..Len(polygons) |-> Components(polygons[i])]

\* The loop of lines 101-103: every polygon is pushed as a multi-polygon of
\* one polygon.
InitialQueue(polygons) == [i \in 1..Len(polygons) |-> <<polygons[i]>>]

\* cascade_union(polygons): the polygons of the union of a list of polygons.
cascade_union(polygons) ==
  IF polygons = <<>> THEN <<>>
  ELSE CascadeLoop(InitialQueue(polygons))

(* ------------------------------------------------------------------ *)
(* Inputs.                                                             *)
(* ------------------------------------------------------------------ *)

\* The base and overlay collections the program is run on: water is the
\* base dataset, area the first overlay dataset and more the overlay
\* datasets that follow it on the command line.  Columns and rows are
\* numbered from 0; polygon k of a collection is element k + 1.
Scenarios ==
  { \* base square [0,0]-[10,10]; overlay squares [5,5]-[15,15], [20,20]-[21,21]
    [water |-> <<Rect(0, 0, 1, 1)>>,
     area  |-> <<Rect(1, 1, 2, 2), Rect(4, 4, 4, 4)>>, more |-> <<>>],
    \* two adjacent base strips; an overlay polygon across both of them and
    \* an overlay polygon inside the first that touches the second
    [water |-> <<Rect(0, 0, 1, 0), Rect(2, 0, 3, 0)>>,
     area  |-> <<Rect(1, 0, 2, 0), Rect(1, 0, 1, 0)>>, more |-> <<>>],
    \* two far-apart base polygons, each with an overlay polygon of its own
    [water |-> <<Rect(0, 0, 0, 0), Rect(4, 0, 4, 0)>>,
     area  |-> <<Rect(0, 1, 0, 1), Rect(4, 1, 4, 1)>>, more |-> <<>>],
    \* a base strip with two separate overlay polygons overlapping its ends,
    \* and two base polygons with nothing near them
    [water |-> <<Rect(1, 0, 3, 0), Rect(0, 3, 0, 3), Rect(4, 4, 4, 4)>>,
     area  |-> <<Rect(0, 0, 1, 0), Rect(3, 0, 4, 0)>>, more |-> <<>>],
    \* three base polygons in a row, each gap filled by an overlay polygon
    \* that touches both of its neighbours
    [water |-> <<Rect(0, 2, 0, 2), Rect(2, 2, 2, 2), Rect(4, 2, 4, 2)>>,
     area  |-> <<Rect(1, 2, 1, 2), Rect(3, 2, 3, 2)>>, more |-> <<>>],
    \* a base polygon touched at a corner by an overlay polygon, and a base
    \* polygon with a hole that an overlay polygon fills
    [water |-> <<Rect(4, 3, 4, 3), Rect(0, 0, 2, 2) \ {<<1, 1>>}>>,
     area  |-> <<Rect(3, 4, 3, 4), Rect(1, 1, 1, 1)>>, more |-> <<>>],
    \* one base polygon with a hole, and the overlay polygon that fills it
    [water |-> <<Rect(0, 0, 2, 2) \ {<<1, 1>>}>>,
     area  |-> <<Rect(1, 1, 1, 1)>>, more |-> <<>>],
    \* an L-shaped base polygon and a base square; no overlay polygon touches
    \* either, though both lie in or at the bounding box of the L
    [water |-> <<Rect(0, 0, 3, 0) \cup Rect(0, 0, 0, 3), Rect(4, 4, 4, 4)>>,
     area  |-> <<Rect(2, 2, 2, 2), Rect(2, 4, 2, 4)>>, more |-> <<>>],
    \* three far-apart base polygons, each with an overlay polygon of its own
    [water |-> <<Rect(0, 0, 0, 0), Rect(4, 0, 4, 0), Rect(2, 4, 2, 4)>>,
     area  |-> <<Rect(0, 1, 0, 1), Rect(4, 1, 4, 1), Rect(2, 3, 2, 3)>>,
     more  |-> <<>>],
    \* three overlay datasets: the first extends the base square to the left
    \* and leaves a polygon to append on its right, the second touches the
    \* appended polygon only, the third touches the first polygon only
    [water |-> <<Rect(2, 2, 2, 2)>>,
     area  |-> <<Rect(0, 2, 1, 2), Rect(3, 2, 4, 2)>>,
     more  |-> << <<Rect(4, 3, 4, 3)>>, <<Rect(0, 1, 0, 1)>> >>]
  }

\* Where a call into the geometry library raises: <<call, base index>>.
FaultChoices ==
  { {},
    {<<"intersects", 0>>},
    {<<"intersects", 0>>, <<"intersects", 1>>},
    {<<"cascade_union", 1>>},
    {<<"union_", 1>>},
    {<<"union_", 0>>, <<"union_", 1>>} }

(* ------------------------------------------------------------------ *)
(* State.                                                              *)
(* ------------------------------------------------------------------ *)

VARIABLES
  water,                \* *water_shp.polygons(): the base collection
  water_rtree,          \* the index of water_shp: the boxes it holds
  region_files,         \* the overlay datasets, in argument order
  region,               \* the loop of main: the position in region_files
  area_shp,             \* the overlay collection; its index holds 0..n-1
  is_rtree_built,       \* area_shp.rtree() is not null
  sel_threads,          \* thread-count argument of the selection's parallel_for
  hardware_concurrency, \* std::thread::hardware_concurrency()
  faults,               \* the geometry calls that raise
  main,                 \* where the calling thread is
  inline,               \* the worker runs on the calling thread
  wk,                   \* the workers of the running parallel_for
  filtered_polygons,    \* the dedup set (MutexProtectedSet)
  mutex_,               \* holders of MutexProtectedSet::mutex_
  mutex,                \* holders of the coarse accumulator mutex
  result,               \* select_overlap's result vector
  overlap,              \* the records passed to merge_overlapping
  extra_polygons,       \* merge_overlapping's queue of polygons to append
  exception,            \* parallel_for's exception slot: the workers recorded
  thrown,               \* the exceptions that have reached the caller
  saved,                \* the collections written by water_shp.save
  exit_status,          \* the status the process ended with, if it has ended
  insert_log,           \* history: the calls of insert that have returned
  water_before,         \* history: the base collection when merge was called
  processed,            \* history: the calls of select_overlap
  merged,               \* history: the base collection after each merge
  polygons,             \* cascade_union called alone: its argument
  polygon_queue,        \* cascade_union called alone: its priority queue
  final_result,         \* cascade_union called alone: what it returned
  cu,                   \* cascade_union called alone: where the call is
  union_log             \* history: the calls of multi_polygon_union

\* The state of a call of cascade_union made on its own.
cascade == <<polygons, polygon_queue, final_result, cu, union_log>>

\* The state of a run of the program.
program == <<water, water_rtree, region_files, region, area_shp, is_rtree_built,
             sel_threads, hardware_concurrency, faults, main, inline, wk,
             filtered_polygons, mutex_, mutex, result, overlap,
             extra_polygons, exception, thrown, saved, exit_status,
             insert_log, water_before, processed, merged>>

vars == <<program, cascade>>

\* What a call of select_overlap or merge_overlapping is given and leaves
\* alone.
inputs == <<water_rtree, region_files, region, area_shp, is_rtree_built, sel_threads,
            hardware_concurrency, faults, saved, exit_status>>

\* A worker about to run the chunk [i0, i1).
NewWorker(pc0, i0, i1) ==
  [pc |-> pc0, i0 |-> i0, i1 |-> i1, ix |-> i0, cands |-> <<>>,
   matching_areas |-> <<>>, local |-> <<>>, found |-> FALSE,
   raced |-> FALSE, k |-> 1, err |-> {}]

\* Shapefile::build_rtree_index: the index holds the envelope of every
\* polygon of the collection, with a pointer to the polygon.
BuildRTree(polygon_list) ==
  [i \in 1..Len(polygon_list) |-> Envelope(polygon_list[i])]

Init ==
  /\ \E sc \in Scenarios :
       /\ water = sc.water
       /\ water_rtree = BuildRTree(sc.water)
       /\ region_files = <<sc.area>> \o sc.more
       /\ area_shp = sc.area
  /\ region = 1
  /\ is_rtree_built \in BOOLEAN
  /\ sel_threads \in 1..MaxThreads
  /\ hardware_concurrency \in 0..MaxHW
  /\ faults \in FaultChoices
  /\ main = "select_overlap"
  /\ inline = FALSE
  /\ wk = <<>>
  /\ filtered_polygons = {}
  /\ mutex_ = {}
  /\ mutex = {}
  /\ result = <<>>
  /\ overlap = <<>>
  /\ extra_polygons = <<>>
  /\ exception = {}
  /\ thrown = {}
  /\ saved = <<>>
  /\ exit_status = {}
  /\ insert_log = {}
  /\ water_before = <<>>
  /\ processed = <<>>
  /\ merged = <<>>
  /\ polygons = <<>>
  /\ polygon_queue = <<>>
  /\ final_result = <<>>
  /\ cu = "none"
  /\ union_log = <<>>

(* ------------------------------------------------------------------ *)
(* parallel_for (uwp/parallel_for.hpp).                                *)
(* ------------------------------------------------------------------ *)

\* The sub-range of thread ix: the values of start and end in the launch loop.
RECURSIVE RangeStart(_, _, _)
\* Mutant of RangeEnd: the remainder is not handed out.
RangeEnd_NoRemainder(size, num_threads, ix) ==
  RangeStart(size, num_threads, ix) + (size \div num_threads)

\* Mutant of RangeEnd: the remainder goes to the last threads.
RangeEnd_RemainderLast(size, num_threads, ix) ==
  RangeStart(size, num_threads, ix) + (size \div num_threads)
    + (IF ix >= num_threads - (size % num_threads) THEN 1 ELSE 0)

RangeEnd(size, num_threads, ix) ==
  LET shift     == size \div num_threads
      remainder == size % num_threads
  IN RangeStart(size, num_threads, ix) + shift + (IF ix < remainder THEN 1 ELSE 0)

\* Mutant of RangeStart: every thread starts at index 0.
RangeStart_Zero(size, num_threads, ix) == 0

RangeStart(size, num_threads, ix) ==
  IF ix = 0 THEN 0 ELSE RangeEnd(size, num_threads, ix - 1)

\* num_threads after the test for 0 at the head of parallel_for.
NumThreads(num_threads) ==
  IF num_threads = 0 THEN hardware_concurrency ELSE num_threads

\* The value of min_size when the caller gives none, as select_overlap and
\* merge_overlapping do.
default_min_size == 1

\* Mutant of RunsDirectly: the test is made on the size of a sub-range.
RunsDirectly_SubRange(size, num_threads, min_size) ==
  \/ NumThreads(num_threads) = 1
  \/ /\ NumThreads(num_threads) # 0
     /\ (size \div NumThreads(num_threads)) < min_size

\* worker(0, size) is called directly, on the calling thread.
RunsDirectly(size, num_threads, min_size) ==
  NumThreads(num_threads) = 1 \/ size <= min_size

\* parallel_for(worker, size, num_threads, min_size) up to the launch of the
\* threads; body is the worker's first position, wait the caller's next one.
parallel_for(body, size, num_threads, min_size, wait) ==
  LET n == NumThreads(num_threads)
  IN /\ exception' = {}
     /\ IF RunsDirectly(size, num_threads, min_size)
        THEN /\ wk' = [t \in {0} |-> NewWorker(body, 0, size)]
             /\ inline' = TRUE
             /\ main' = wait
        ELSE IF n = 0
        THEN \* size / num_threads and size % num_threads with num_threads = 0
             \* (undefined): the division traps, or it yields 0 as on
             \* hardware that does not trap, the loop of line 178 launches
             \* no thread and parallel_for goes on to its end.
             /\ wk' = <<>>
             /\ inline' = FALSE
             /\ main' \in {"division_by_zero", wait}
        ELSE /\ wk' = [t \in 0..(n - 1) |->
                         NewWorker(body, RangeStart(size, n, t), RangeEnd(size, n, t))]
             /\ inline' = FALSE
             /\ main' = wait

Workers == DOMAIN wk

\* Mutant of Raise: a failing thread ends without storing its exception.
Raise_NotStored(t, e) ==
  /\ wk' = [wk EXCEPT ![t].pc = "failed", ![t].err = {e}, ![t].raced = FALSE]
  /\ IF inline
     THEN main' = "raised" /\ thrown' = thrown \cup {e} /\ exception' = exception
     ELSE main' = main /\ thrown' = thrown /\ exception' = exception

\* Worker t raises the exception e: on the calling thread it propagates to
\* the caller of parallel_for; in a thread it is caught and stored in the
\* exception slot, and the thread ends.  The slot is written without a
\* lock: of the writes of several failing threads, made in any order, the
\* last one stays.
Raise(t, e) ==
  /\ wk' = [wk EXCEPT ![t].pc = "failed", ![t].err = {e}, ![t].raced = FALSE]
  /\ IF inline
     THEN main' = "raised" /\ thrown' = thrown \cup {e} /\ exception' = exception
     ELSE main' = main /\ thrown' = thrown /\ exception' = {e}

\* Mutant of AllJoined: the caller goes on as soon as one thread has failed.
AllJoined_OrFailed ==
  \/ \A t \in Workers : wk[t].pc \in {"done", "failed"}
  \/ \E t \in Workers : wk[t].pc = "failed"

\* Every thread has been joined.
AllJoined == \A t \in Workers : wk[t].pc \in {"done", "failed"}

\* The end of parallel_for: the direct call has returned, or all threads
\* are joined and the exception slot is tested.
parallel_for_end(next) ==
  /\ AllJoined
  /\ IF inline
     THEN main' = next /\ thrown' = thrown
     ELSE IF exception # {}
          THEN main' = "raised" /\ thrown' = thrown \cup exception
          ELSE main' = next /\ thrown' = thrown

(* ------------------------------------------------------------------ *)
(* select_overlap (update.cpp).                                        *)
(* ------------------------------------------------------------------ *)

\* The identities held by the overlay index: polygon k is area_shp[k + 1].
AreaIds == 0..(Len(area_shp) - 1)

AreaPolygon(id) == area_shp[id + 1]

\* The elements of a set of numbers in ascending order.
RECURSIVE Ascending(_)
Ascending(S) ==
  IF S = {} THEN <<>>
  ELSE LET m == CHOOSE x \in S : \A y \in S : x <= y
       IN <<m>> \o Ascending(S \ {m})

\* area_shp.rtree()->query(bg::index::intersects(envelope), ...): the
\* overlay polygons whose box intersects the envelope.
RTreeQuery(envelope) ==
  Ascending({id \in AreaIds : BoxIntersects(envelope, Envelope(AreaPolygon(id)))})

\* Mutant of Eligible: the test for containment is left out.
Eligible_NoWithin(water_polygon, item) == Intersects(water_polygon, item)

\* Mutant of Eligible: the test for intersection is left out.
Eligible_NoIntersects(water_polygon, item) == ~Within(item, water_polygon)

\* The test of lines 41-42: the candidate is neither disjoint from the water
\* polygon nor within it.
Eligible(water_polygon, item) ==
  ~(~Intersects(water_polygon, item) \/ Within(item, water_polygon))

\* select_overlap(water, area_shp): a new dedup set, an empty result and
\* the call of parallel_for (lines 61-74).
SelectOverlapCall ==
  /\ main = "select_overlap"
  /\ parallel_for("select_overlap", Len(water), sel_threads, default_min_size,
                  "select_wait")
  /\ filtered_polygons' = {}
  /\ result' = <<>>
  /\ insert_log' = {}
  /\ water_before' = <<>>
  /\ processed' = Append(processed, [region |-> region, area |-> area_shp,
                                     water |-> water])
  /\ UNCHANGED <<water, inputs, cascade, mutex_, mutex, overlap, extra_polygons, thrown,
                 merged>>

\* The head of the loop over [i0, i1): the envelope and the index query for
\* the next water polygon, or the return of the chunk's result.
\* area_shp.rtree() is not tested: on an index that was not built,
\* rtree()->query dereferences a null pointer (undefined); the process is
\* killed by SIGSEGV, or by the abort of the library's assertion on
\* shared_ptr::operator-> when the build enables it.
SelectNext(t) ==
  /\ main = "select_wait"
  /\ wk[t].pc = "select_overlap"
  /\ LET w == wk[t]
         area_polygons == RTreeQuery(Envelope(water[w.ix + 1]))
     IN IF w.ix < w.i1 /\ ~is_rtree_built
        THEN /\ main' \in {"segfault", "abort"}
             /\ wk' = wk
        ELSE /\ main' = main
             /\ wk' = [wk EXCEPT ![t] =
                   IF w.ix >= w.i1 THEN [w EXCEPT !.pc = "lock"]
                   ELSE IF area_polygons = <<>> THEN [w EXCEPT !.ix = @ + 1]
                   ELSE [w EXCEPT !.cands = area_polygons,
                                  !.matching_areas = <<>>,
                                  !.pc = "contains"]]
  /\ UNCHANGED <<water, inputs, cascade, inline, filtered_polygons, mutex_, mutex,
                 result, overlap, extra_polygons, exception, thrown,
                 insert_log, water_before, processed, merged>>

\* Mutant of Advance: the record is put at the head of the chunk's result.
Advance_Prepend(w, matching) ==
  IF Len(w.cands) > 1
  THEN [w EXCEPT !.cands = Tail(@), !.matching_areas = matching,
                 !.pc = "contains"]
  ELSE [w EXCEPT !.cands = <<>>, !.matching_areas = <<>>,
                 !.local = IF matching # <<>>
                           THEN <<[first |-> w.ix, second |-> matching]>> \o @
                           ELSE @,
                 !.ix = @ + 1,
                 !.pc = "select_overlap"]

\* The worker after its first candidate is dealt with, matching being the
\* match list so far: the next candidate, or the end of the water polygon
\* (lines 51-54).
Advance(w, matching) ==
  IF Len(w.cands) > 1
  THEN [w EXCEPT !.cands = Tail(@), !.matching_areas = matching,
                 !.pc = "contains"]
  ELSE [w EXCEPT !.cands = <<>>, !.matching_areas = <<>>,
                 !.local = IF matching # <<>>
                           THEN Append(@, [first |-> w.ix, second |-> matching])
                           ELSE @,
                 !.ix = @ + 1,
                 !.pc = "select_overlap"]

\* Mutant of Unlock: the lock stays held.
Unlock_Never(holders, t) == holders

\* The destructor of std::lock_guard, at the end of the scope or when an
\* exception leaves it: thread t no longer holds the mutex.
Unlock(holders, t) == holders \ {t}

\* MutexProtectedSet::contains is entered; it takes no lock (lines 26-28).
ContainsEnter(t) ==
  /\ main = "select_wait"
  /\ wk[t].pc = "contains"
  /\ wk' = [wk EXCEPT ![t].pc = "contains_read", ![t].raced = FALSE]
  /\ UNCHANGED <<water, inputs, cascade, main, inline, filtered_polygons, mutex_, mutex,
                 result, overlap, extra_polygons, exception, thrown,
                 insert_log, water_before, processed, merged>>

\* What std::set::contains can return: the membership of the key; when the
\* set was written during the read (a data race), the reader walks a tree
\* whose links are being rotated and can also miss a key that is present.
\* No key is ever erased and no node is ever freed during a selection, so
\* the walk ends and finds no key that was never inserted.
ContainsResults(w) ==
  IF w.raced
  THEN {Head(w.cands) \in filtered_polygons, FALSE}
  ELSE {Head(w.cands) \in filtered_polygons}

\* contains returns (line 37); when it returns false, the tests of lines
\* 41-42 follow.
ContainsReturn(t) ==
  /\ main = "select_wait"
  /\ wk[t].pc = "contains_read"
  /\ \E present \in ContainsResults(wk[t]) :
       LET w    == wk[t]
           item == AreaPolygon(Head(w.cands))
       IN IF present
          THEN /\ wk' = [wk EXCEPT ![t] = Advance(w, w.matching_areas)]
               /\ UNCHANGED <<main, exception, thrown>>
          ELSE IF <<"intersects", w.ix>> \in faults
          THEN Raise(t, <<"intersects", w.ix>>)
          ELSE /\ wk' = [wk EXCEPT ![t] =
                           IF Eligible(water[w.ix + 1], item)
                           THEN [w EXCEPT !.pc = "insert"]
                           ELSE Advance(w, w.matching_areas)]
               /\ UNCHANGED <<main, exception, thrown>>
  /\ UNCHANGED <<water, inputs, cascade, inline, filtered_polygons, mutex_, mutex,
                 result, overlap, extra_polygons, insert_log, water_before, processed, merged>>

\* Mutant of InsertGuard: insert does not wait for the lock.
InsertGuard_NoLock(t) == TRUE

\* MutexProtectedSet::insert: std::lock_guard lock(mutex_) (line 35).
InsertGuard(t) == mutex_ = {}

InsertLock(t) ==
  /\ main = "select_wait"
  /\ wk[t].pc = "insert"
  /\ InsertGuard(t)
  /\ mutex_' = mutex_ \cup {t}
  /\ wk' = [wk EXCEPT ![t].pc = "insert_find"]
  /\ UNCHANGED <<water, inputs, cascade, main, inline, filtered_polygons, mutex,
                 result, overlap, extra_polygons, exception, thrown,
                 insert_log, water_before, processed, merged>>

\* std::set::insert, first half: the search for the key.
InsertFind(t) ==
  /\ main = "select_wait"
  /\ wk[t].pc = "insert_find"
  /\ wk' = [wk EXCEPT ![t].found = Head(wk[t].cands) \in filtered_polygons,
                      ![t].pc = "insert_link"]
  /\ UNCHANGED <<water, inputs, cascade, main, inline, filtered_polygons, mutex_, mutex,
                 result, overlap, extra_polygons, exception, thrown,
                 insert_log, water_before, processed, merged>>

\* std::set::insert, second half: the node is linked unless the key was
\* found; the lock is released and .second is returned; a new key is added
\* to the match list (lines 46-49).  A reader inside contains at that moment
\* has raced with the write.
InsertLink(t) ==
  /\ main = "select_wait"
  /\ wk[t].pc = "insert_link"
  /\ LET w        == wk[t]
         id       == Head(w.cands)
         inserted == ~w.found
     IN /\ filtered_polygons' =
             IF inserted THEN filtered_polygons \cup {id} ELSE filtered_polygons
        /\ insert_log' = insert_log \cup
             {[thread |-> t, ix |-> w.ix, id |-> id, second |-> inserted,
               grew |-> filtered_polygons' # filtered_polygons]}
        /\ wk' = [u \in Workers |->
                    IF u = t
                    THEN Advance(w, IF inserted THEN Append(w.matching_areas, id)
                                    ELSE w.matching_areas)
                    ELSE IF inserted /\ wk[u].pc = "contains_read"
                    THEN [wk[u] EXCEPT !.raced = TRUE]
                    ELSE wk[u]]
  /\ mutex_' = Unlock(mutex_, t)
  /\ UNCHANGED <<water, inputs, cascade, main, inline, mutex, result, overlap,
                 extra_polygons, exception, thrown, water_before, processed,
                 merged>>

\* Mutant of CoarseLockFree: the coarse lock is taken without waiting.
CoarseLockFree_Always == TRUE

\* std::lock_guard lock(mutex) of the worker lambdas can be constructed:
\* no thread holds the coarse mutex.
CoarseLockFree == mutex = {}

\* The worker lambda: std::lock_guard lock(mutex) (line 69).
ResultLock(t) ==
  /\ main = "select_wait"
  /\ wk[t].pc = "lock"
  /\ CoarseLockFree
  /\ mutex' = mutex \cup {t}
  /\ wk' = [wk EXCEPT ![t].pc = "result_insert"]
  /\ UNCHANGED <<water, inputs, cascade, main, inline, filtered_polygons, mutex_,
                 result, overlap, extra_polygons, exception, thrown,
                 insert_log, water_before, processed, merged>>

\* result.insert(result.end(), ...) and the release of the lock (lines 70-72).
ResultInsert(t) ==
  /\ main = "select_wait"
  /\ wk[t].pc = "result_insert"
  /\ result' = result \o wk[t].local
  /\ mutex' = Unlock(mutex, t)
  /\ wk' = [wk EXCEPT ![t].pc = "done"]
  /\ UNCHANGED <<water, inputs, cascade, main, inline, filtered_polygons, mutex_,
                 overlap, extra_polygons, exception, thrown, insert_log,
                 water_before, processed, merged>>

\* parallel_for returns and select_overlap returns result (line 75), which
\* main passes to merge_overlapping; or parallel_for rethrows.
SelectOverlapReturn ==
  /\ main = "select_wait"
  /\ parallel_for_end("merge_overlapping")
  /\ overlap' = result
  /\ UNCHANGED <<water, inputs, cascade, inline, wk, filtered_polygons, mutex_, mutex,
                 result, extra_polygons, exception, insert_log, water_before, processed, merged>>

(* ------------------------------------------------------------------ *)
(* merge_overlapping (update.cpp).                                     *)
(* ------------------------------------------------------------------ *)

\* The polygons of a match list: the copies made at line 48.
Polygons(ids) == [j \in 1..Len(ids) |-> AreaPolygon(ids[j])]

\* merge_overlapping(water_shp, overlap): the call of parallel_for (line 170).
MergeOverlappingCall ==
  /\ main = "merge_overlapping"
  /\ parallel_for("merge_overlapping", Len(overlap), 0, default_min_size,
                  "merge_wait")
  /\ extra_polygons' = <<>>
  /\ water_before' = water
  /\ UNCHANGED <<water, inputs, cascade, filtered_polygons, mutex_, mutex, result,
                 overlap, thrown, insert_log, processed, merged>>

\* merge_overlapping(overlap, i0, i1), one turn of its loop: the cascade
\* union of the next record, or the return of the chunk's result.
MergeNext(t) ==
  /\ main = "merge_wait"
  /\ wk[t].pc = "merge_overlapping"
  /\ LET w == wk[t]
     IN IF w.ix >= w.i1
        THEN /\ wk' = [wk EXCEPT ![t].pc = "lock"]
             /\ UNCHANGED <<main, exception, thrown>>
        ELSE LET item    == overlap[w.ix + 1]
                 unioned == cascade_union(Polygons(item.second))
             IN IF <<"cascade_union", item.first>> \in faults
                THEN Raise(t, <<"cascade_union", item.first>>)
                ELSE /\ wk' = [wk EXCEPT ![t].ix = @ + 1,
                                 ![t].local =
                                   IF unioned = <<>> THEN @
                                   ELSE Append(@, [first |-> item.first,
                                                   second |-> unioned])]
                     /\ UNCHANGED <<main, exception, thrown>>
  /\ UNCHANGED <<water, inputs, cascade, inline, filtered_polygons, mutex_, mutex,
                 result, overlap, extra_polygons, insert_log, water_before, processed, merged>>

\* Mutant of ReplaceSlot: the other pieces of the union are appended to the
\* base collection at once.
ReplaceSlot_AppendNow(water_polygons, first, unioned) ==
  IF unioned # <<>>
  THEN [water_polygons EXCEPT ![first + 1] = unioned[1]] \o Tail(unioned)
  ELSE water_polygons

\* Mutant of ReplaceSlot: the first polygon of the collection is replaced.
ReplaceSlot_First(water_polygons, first, unioned) ==
  IF unioned # <<>>
  THEN [water_polygons EXCEPT ![1] = unioned[1]]
  ELSE water_polygons

\* Lines 157-158: the water polygon at index first becomes the first piece
\* of the union, when there is one.
ReplaceSlot(water_polygons, first, unioned) ==
  IF unioned # <<>>
  THEN [water_polygons EXCEPT ![first + 1] = unioned[1]]
  ELSE water_polygons

\* The worker lambda: std::lock_guard lock(mutex) (line 151).
MergeLock(t) ==
  /\ main = "merge_wait"
  /\ wk[t].pc = "lock"
  /\ CoarseLockFree
  /\ mutex' = mutex \cup {t}
  /\ wk' = [wk EXCEPT ![t].pc = "apply", ![t].k = 1]
  /\ UNCHANGED <<water, inputs, cascade, main, inline, filtered_polygons, mutex_,
                 result, overlap, extra_polygons, exception, thrown,
                 insert_log, water_before, processed, merged>>

\* One turn of the loop of lines 152-166 under the lock: the water polygon
\* is replaced by the first piece of its union with the first unioned
\* polygon, and the other pieces and the other unioned polygons are queued;
\* after the last turn the lock is released.  An exception releases the
\* lock too.
MergeApply(t) ==
  /\ main = "merge_wait"
  /\ wk[t].pc = "apply"
  /\ LET w == wk[t]
     IN IF w.k > Len(w.local)
        THEN /\ wk' = [wk EXCEPT ![t].pc = "done"]
             /\ mutex' = Unlock(mutex, t)
             /\ UNCHANGED <<water, extra_polygons, main, exception, thrown>>
        ELSE LET item    == w.local[w.k]
                 unioned == union_(water[item.first + 1], item.second[1])
             IN IF <<"union_", item.first>> \in faults
                THEN /\ Raise(t, <<"union_", item.first>>)
                     /\ mutex' = Unlock(mutex, t)
                     /\ UNCHANGED <<water, extra_polygons>>
                ELSE /\ water' = ReplaceSlot(water, item.first, unioned)
                     /\ extra_polygons' =
                          extra_polygons
                            \o (IF unioned # <<>> THEN Tail(unioned) ELSE <<>>)
                            \o Tail(item.second)
                     /\ wk' = [wk EXCEPT ![t].k = @ + 1]
                     /\ UNCHANGED <<mutex, main, exception, thrown>>
  /\ UNCHANGED <<inputs, cascade, inline, filtered_polygons, mutex_, result, overlap,
                 insert_log, water_before, processed, merged>>

\* parallel_for returns, or rethrows (lines 196-206).
MergeJoin ==
  /\ main = "merge_wait"
  /\ parallel_for_end("append")
  /\ UNCHANGED <<water, inputs, cascade, inline, wk, filtered_polygons, mutex_, mutex,
                 result, overlap, extra_polygons, exception, insert_log,
                 water_before, processed, merged>>

\* The loop of lines 171-173: every queued polygon is appended to the base
\* collection (Shapefile::append), and merge_overlapping returns.
MergeAppend ==
  /\ main = "append"
  /\ water' = water \o extra_polygons
  /\ merged' = Append(merged, water')
  /\ main' = "done"
  /\ UNCHANGED <<inputs, cascade, inline, wk, filtered_polygons, mutex_, mutex, result,
                 overlap, extra_polygons, exception, thrown, insert_log,
                 water_before, processed>>

(* ------------------------------------------------------------------ *)
(* main (main.cpp).                                                    *)
(* ------------------------------------------------------------------ *)

\* Mutant of RegionsLeft: the loop ends after its first turn.
RegionsLeft_Never == FALSE

\* The range-for of line 54 has a further element.
RegionsLeft == region < Len(region_files)

\* The loop over region_files goes to its next turn: the overlap of the
\* last turn is destroyed, the next overlay dataset is loaded and its
\* index is built (lines 54-58).
NextRegion ==
  /\ main = "done"
  /\ RegionsLeft
  /\ region' = region + 1
  /\ area_shp' = region_files[region + 1]
  /\ is_rtree_built' = TRUE
  /\ overlap' = <<>>
  /\ main' = "select_overlap"
  /\ UNCHANGED <<cascade, water, water_rtree, region_files, sel_threads, hardware_concurrency, faults,
                 inline, wk, filtered_polygons, mutex_, mutex, result,
                 extra_polygons, exception, thrown, saved, exit_status,
                 insert_log, water_before, processed, merged>>

\* After the last overlay dataset: water_shp.save(output_file) writes the
\* base collection, and main returns 0 (lines 64-68).  The output file is
\* taken to be writable.
Save ==
  /\ main = "done"
  /\ ~RegionsLeft
  /\ saved' = Append(saved, water)
  /\ exit_status' = {0}
  /\ main' = "exit"
  /\ UNCHANGED <<cascade, water, water_rtree, region_files, region, area_shp, is_rtree_built,
                 sel_threads, hardware_concurrency, faults, inline, wk,
                 filtered_polygons, mutex_, mutex, result, overlap,
                 extra_polygons, exception, thrown, insert_log, water_before,
                 processed, merged>>

\* An exception raised by select_overlap or merge_overlapping is caught
\* nowhere in main: std::terminate ends the process by abort (SIGABRT).
Terminate ==
  /\ main = "raised"
  /\ exit_status' = {134}
  /\ main' = "terminated"
  /\ UNCHANGED <<cascade, water, water_rtree, region_files, region, area_shp, is_rtree_built,
                 sel_threads, hardware_concurrency, faults, inline, wk,
                 filtered_polygons, mutex_, mutex, result, overlap,
                 extra_polygons, exception, thrown, saved, insert_log,
                 water_before, processed, merged>>

\* The process is killed by the signal of a trapped division (SIGFPE), of
\* a null dereference (SIGSEGV) or of a failed library assertion (SIGABRT).
Signal ==
  /\ main \in {"division_by_zero", "segfault", "abort"}
  /\ exit_status' = IF main = "division_by_zero" THEN {136}
                    ELSE IF main = "segfault" THEN {139} ELSE {134}
  /\ main' = "killed"
  /\ UNCHANGED <<cascade, water, water_rtree, region_files, region, area_shp, is_rtree_built,
                 sel_threads, hardware_concurrency, faults, inline, wk,
                 filtered_polygons, mutex_, mutex, result, overlap,
                 extra_polygons, exception, thrown, saved, insert_log,
                 water_before, processed, merged>>

(* ------------------------------------------------------------------ *)
(* The program.                                                        *)
(* ------------------------------------------------------------------ *)

Next ==
  \/ SelectOverlapCall
  \/ \E t \in Workers : SelectNext(t)
  \/ \E t \in Workers : ContainsEnter(t)
  \/ \E t \in Workers : ContainsReturn(t)
  \/ \E t \in Workers : InsertLock(t)
  \/ \E t \in Workers : InsertFind(t)
  \/ \E t \in Workers : InsertLink(t)
  \/ \E t \in Workers : ResultLock(t)
  \/ \E t \in Workers : ResultInsert(t)
  \/ SelectOverlapReturn
  \/ MergeOverlappingCall
  \/ \E t \in Workers : MergeNext(t)
  \/ \E t \in Workers : MergeLock(t)
  \/ \E t \in Workers : MergeApply(t)
  \/ MergeJoin
  \/ MergeAppend
  \/ NextRegion
  \/ Save
  \/ Terminate
  \/ Signal

Spec == Init /\ [][Next]_vars

\* The program under a fair scheduler: a thread that can take a step is
\* not kept from it for ever.
FairSpec == Spec /\ WF_vars(Next)

(* ------------------------------------------------------------------ *)
(* cascade_union called on its own (update.hpp declares it).           *)
(* ------------------------------------------------------------------ *)

\* The polygons cascade_union is given: two overlapping squares, a cell
\* inside both, a square that touches the second at a corner, a square
\* far from all, a square beside the first, a polygon with a hole, and a
\* polygon whose two cells meet at a corner only (not a simple polygon).
PolygonChoices ==
  { Rect(0, 0, 1, 1), Rect(1, 1, 2, 2), Rect(1, 1, 1, 1), Rect(3, 0, 3, 0),
    Rect(4, 4, 4, 4), Rect(2, 0, 2, 0), Rect(0, 0, 2, 2) \ {<<1, 1>>},
    {<<0, 3>>, <<1, 4>>} }

\* The sequences of at most n elements of S.
RECURSIVE SeqsUpTo(_, _)
SeqsUpTo(S, n) ==
  IF n = 0 THEN {<<>>}
  ELSE LET shorter == SeqsUpTo(S, n - 1)
       IN shorter \cup {Append(q, x) : q \in shorter, x \in S}

CascadeInit ==
  /\ polygons \in SeqsUpTo(PolygonChoices, MaxPolygons)
  /\ polygon_queue = <<>>
  /\ final_result = <<>>
  /\ cu = "cascade_union"
  /\ union_log = <<>>
  /\ water = <<>> /\ water_rtree = <<>>
  /\ region_files = <<>> /\ region = 0 /\ area_shp = <<>>
  /\ is_rtree_built = FALSE
  /\ sel_threads = 1 /\ hardware_concurrency = 1 /\ faults = {}
  /\ main = "none" /\ inline = FALSE /\ wk = <<>>
  /\ filtered_polygons = {} /\ mutex_ = {} /\ mutex = {}
  /\ result = <<>> /\ overlap = <<>> /\ extra_polygons = <<>>
  /\ exception = {} /\ thrown = {} /\ saved = <<>> /\ exit_status = {}
  /\ insert_log = {} /\ water_before = <<>> /\ processed = <<>>
  /\ merged = <<>>

\* cascade_union is entered: the empty sequence is returned at once (lines
\* 95-97), else every polygon is pushed on the queue (lines 98-103).
CascadeUnionCall ==
  /\ cu = "cascade_union"
  /\ IF polygons = <<>>
     THEN /\ final_result' = <<>>
          /\ cu' = "returned"
          /\ polygon_queue' = polygon_queue
     ELSE /\ polygon_queue' = InitialQueue(polygons)
          /\ cu' = "while"
          /\ final_result' = final_result
  /\ UNCHANGED <<program, polygons, union_log>>

\* One turn of the while loop (lines 105-115): the two top elements are
\* popped and their union is pushed.
CascadeUnionStep ==
  /\ cu = "while"
  /\ Len(polygon_queue) > 1
  /\ LET mpoly1 == polygon_queue[TopIndex(polygon_queue)]
         q1     == Pop(polygon_queue)
         mpoly2 == q1[TopIndex(q1)]
         q2     == Pop(q1)
     IN /\ polygon_queue' = Append(q2, multi_polygon_union(mpoly1, mpoly2))
        /\ union_log' = Append(union_log, [mpoly1 |-> mpoly1, mpoly2 |-> mpoly2,
                                          queue |-> polygon_queue])
  /\ UNCHANGED <<program, polygons, final_result, cu>>

\* The loop has ended: the polygons of the top element are returned (lines
\* 117-119).
CascadeUnionReturn ==
  /\ cu = "while"
  /\ ~(Len(polygon_queue) > 1)
  /\ final_result' = polygon_queue[TopIndex(polygon_queue)]
  /\ cu' = "returned"
  /\ UNCHANGED <<program, polygons, polygon_queue, union_log>>

CascadeNext ==
  \/ CascadeUnionCall
  \/ CascadeUnionStep
  \/ CascadeUnionReturn

CascadeSpec == CascadeInit /\ [][CascadeNext]_vars

(* ------------------------------------------------------------------ *)
(* Properties.                                                         *)
(* ------------------------------------------------------------------ *)

\* The places <<record, position>> of result that hold the overlay polygon id.
Occurrences(records, id) ==
  {<<r, j>> \in (1..Len(records)) \X (1..Len(area_shp)) :
     j <= Len(records[r].second) /\ records[r].second[j] = id}

\* select_overlap has returned and merge_overlapping is not yet called.
SelectReturned == main = "merge_overlapping"

\* C1: the sequence built by select_overlap holds each overlay polygon (by
\* identity) at most once: never in two records, never twice in one record.
C1_UniqueClaims ==
  \A id \in AreaIds : Cardinality(Occurrences(result, id)) <= 1

\* C1 witness: selection has returned a record holding an overlay polygon
\* that two different workers tried to claim.
C1_Witness ==
  /\ SelectReturned
  /\ \E id \in AreaIds :
       /\ Occurrences(result, id) # {}
       /\ \E e1, e2 \in insert_log :
            e1.id = id /\ e2.id = id /\ e1.thread # e2.thread

\* C2: insert is an atomic check-and-set: of the calls of insert(id) that
\* have returned, exactly one returned true, whatever their number and
\* interleaving; a call returns true exactly when it added id to the set,
\* so a call on an id already present returns false and changes nothing;
\* and the set holds exactly the ids for which a call returned true.
C2_InsertAtomic ==
  /\ \A id \in AreaIds :
       LET calls == {e \in insert_log : e.id = id}
       IN calls # {} => Cardinality({e \in calls : e.second}) = 1
  /\ \A e \in insert_log : e.second = e.grew
  /\ filtered_polygons = {e.id : e \in {x \in insert_log : x.second}}

\* C2 witness: two workers were inside insert(id) for the same id at once
\* (one holding the lock, one waiting for it) and both calls have returned,
\* one true and one false.
C2_Witness ==
  \E e1, e2 \in insert_log :
    /\ e1.id = e2.id /\ e1.thread # e2.thread
    /\ e1.second /\ ~e2.second
    /\ e1.ix # e2.ix

\* C3 (as claimed): no thread is reading the set inside contains while
\* another thread is inside insert's critical section.
C3_ContainsSerialized ==
  \A t, u \in Workers :
    ~(t # u /\ wk[t].pc = "contains_read"
            /\ wk[u].pc \in {"insert_find", "insert_link"})


\* The records of result that belong to the water polygon ix.
RecordsOf(records, ix) == {r \in 1..Len(records) : records[r].first = ix}

WaterIndices == 0..(Len(water) - 1)

\* C4 (as claimed): an overlay polygon that lies within some base polygon is
\* in no record returned by select_overlap.
C4_ContainedInNoRecord ==
  SelectReturned =>
    \A id \in AreaIds :
      (\E ix \in WaterIndices : Within(AreaPolygon(id), water[ix + 1]))
        => Occurrences(result, id) = {}

\* C4 (amended): an overlay polygon that lies within the base polygon w is
\* not in the record of w; it may be in the record of another base polygon.
C4_ContainedNotInOwnRecord ==
  main \in {"select_wait", "merge_overlapping"} =>
    \A r \in 1..Len(result) :
      \A j \in 1..Len(result[r].second) :
        ~Within(AreaPolygon(result[r].second[j]), water[result[r].first + 1])

\* C4 witness: selection has returned a record for a base polygon that
\* contains an overlay polygon of its candidates.
C4_Witness ==
  /\ SelectReturned
  /\ \E r \in 1..Len(result) : \E id \in AreaIds :
       Within(AreaPolygon(id), water[result[r].first + 1])

\* The input of the end-to-end example: base square [0,0]-[10,10], overlay
\* squares [5,5]-[15,15] and [20,20]-[21,21].
IsSquaresExample ==
  /\ water_before = <<Rect(0, 0, 1, 1)>>
  /\ area_shp = <<Rect(1, 1, 2, 2), Rect(4, 4, 4, 4)>>

\* C5 (as claimed): on the example, overlay square 1 is claimed, base
\* polygon 0 has area 175, and overlay square 2 is appended unchanged: the
\* collection holds 2 polygons.
C5_TwoPolygons ==
  (main = "done" /\ IsSquaresExample) =>
    /\ result = <<[first |-> 0, second |-> <<0>>]>>
    /\ Area(water[1]) = 175
    /\ Len(water) = 2
    /\ water[2] = AreaPolygon(1)

\* C5 (amended): on the example, overlay square 1 is claimed and base
\* polygon 0 becomes one polygon of area 175; overlay square 2 is unclaimed
\* and is not appended: the collection holds exactly 1 polygon.
C5_OnePolygon ==
  (main = "done" /\ IsSquaresExample) =>
    /\ result = <<[first |-> 0, second |-> <<0>>]>>
    /\ filtered_polygons = {0}
    /\ Area(water[1]) = 175
    /\ water[1] = Rect(0, 0, 1, 1) \cup Rect(1, 1, 2, 2)
    /\ Len(water) = 1

\* C5 witness: selection and merge have run to their end on the example.
C5_Witness == main = "done" /\ IsSquaresExample

\* The polygons of a collection have pairwise disjoint interiors.
DisjointInteriors(ps) ==
  \A i, j \in 1..Len(ps) : i # j => ps[i] \cap ps[j] = {}

\* C6 (as claimed): from a base collection with pairwise disjoint
\* interiors, the collection after merge_overlapping has pairwise disjoint
\* interiors.
C6_MergeNonOverlapping ==
  (main = "done" /\ DisjointInteriors(water_before)) => DisjointInteriors(water)


\* An overlay polygon is eligible for the water polygon ix.
EligibleFor(id, ix) == Eligible(water[ix + 1], AreaPolygon(id))

\* No overlay polygon is eligible for more than one base polygon.
NoSharedCandidate ==
  \A id \in AreaIds :
    Cardinality({ix \in WaterIndices : EligibleFor(id, ix)}) <= 1

\* The selection run with one thread: the loop of select_overlap over
\* [0, n) on the calling thread, from the water polygon ix on, with the
\* dedup set filtered; the records it returns.
RECURSIVE SequentialMatches(_, _, _)
SequentialMatches(ix, cands, filtered) ==
  IF cands = <<>> THEN <<>>
  ELSE LET id == Head(cands)
       IN IF id \notin filtered /\ EligibleFor(id, ix)
          THEN <<id>> \o SequentialMatches(ix, Tail(cands), filtered \cup {id})
          ELSE SequentialMatches(ix, Tail(cands), filtered)

RECURSIVE SequentialSelect(_, _)
SequentialSelect(ix, filtered) ==
  IF ix >= Len(water) THEN <<>>
  ELSE LET matching == SequentialMatches(ix, RTreeQuery(Envelope(water[ix + 1])),
                                         filtered)
           range(q) == {q[j] : j \in 1..Len(q)}
       IN (IF matching # <<>>
           THEN <<[first |-> ix, second |-> matching]>> ELSE <<>>)
          \o SequentialSelect(ix + 1, filtered \cup range(matching))

\* A sequence of records as a set of <<base index, set of overlay polygons>>.
RecordSet(records) ==
  {<<records[r].first, {records[r].second[j] : j \in 1..Len(records[r].second)}>> :
     r \in 1..Len(records)}

\* C7: when no overlay polygon is eligible for more than one base polygon,
\* the selection returns, with any number of threads and in any
\* interleaving, the set of records of the one-thread selection.
C7_SameAsOneThread ==
  (SelectReturned /\ NoSharedCandidate) =>
    RecordSet(result) = RecordSet(SequentialSelect(0, {}))

\* C7 witness: a selection run by threads has returned records of two
\* different workers, on an input without a shared eligible candidate, after
\* a contains that raced with an insert.
C7_Witness ==
  /\ SelectReturned /\ NoSharedCandidate /\ ~inline
  /\ \E t, u \in Workers : t # u /\ wk[t].local # <<>> /\ wk[u].local # <<>>
  /\ \E t \in Workers : wk[t].raced


\* The exceptions raised by the workers of the last parallel_for.
RaisedByWorkers == UNION {wk[t].err : t \in Workers}

\* parallel_for has returned normally to select_overlap or merge_overlapping.
ReturnedNormally == main \in {"merge_overlapping", "append", "done"}

\* C8: when parallel_for raises, it raises exactly one exception and a
\* worker raised it; when it returns normally, no worker raised.  Hence if
\* at least one worker raises, the caller gets exactly one of the workers'
\* exceptions, whichever write to the exception slot came last.
C8_OneExceptionRethrown ==
  /\ main = "raised" => (Cardinality(thrown) = 1 /\ thrown \subseteq RaisedByWorkers)
  /\ ReturnedNormally => (RaisedByWorkers = {} /\ thrown = {})

\* C8 witness: two threads raised different exceptions, both wrote the
\* exception slot, and parallel_for has rethrown.
C8_Witness ==
  /\ main = "raised"
  /\ ~inline
  /\ Cardinality(RaisedByWorkers) = 2

\* C9: a thread that has ended, by an exception or not, holds no lock, so
\* that it stops no sibling; and when the exception reaches the caller of a
\* threaded parallel_for, every thread has ended (is joined) and every
\* thread that did not raise itself has gone through its whole sub-range.
C9_SiblingsRunToCompletion ==
  /\ \A t \in mutex \cup mutex_ : wk[t].pc \notin {"done", "failed"}
  /\ (main = "raised" /\ ~inline) =>
       \A t \in Workers :
         /\ wk[t].pc \in {"done", "failed"}
         /\ wk[t].pc = "done" => wk[t].ix = wk[t].i1

\* C9 witness: parallel_for has rethrown the exception of one thread while
\* another thread has processed a non-empty sub-range to its end.
C9_Witness ==
  /\ main = "raised"
  /\ ~inline
  /\ \E t, u \in Workers :
       /\ wk[t].pc = "failed"
       /\ wk[u].pc = "done" /\ wk[u].i1 > wk[u].i0 /\ wk[u].local # <<>>

\* merge_overlapping has raised.
MergeRaised == main = "raised" /\ water_before # <<>>

\* The base indices that the records passed to merge_overlapping refer to.
RecordIndices == {overlap[r].first : r \in 1..Len(overlap)}

\* C10 (as claimed): if merge_overlapping raises, the base collection holds
\* exactly the polygons it held before the call.
C10_MergeFailureRestores == MergeRaised => water = water_before

\* C10 (amended): if merge_overlapping raises, no polygon has been appended
\* to the base collection and every base polygon whose index is in no
\* record is unchanged; the slots replaced before the failure stay replaced.
C10_MergeFailureAppendsNothing ==
  MergeRaised =>
    /\ Len(water) = Len(water_before)
    /\ \A i \in 1..Len(water) : (i - 1) \notin RecordIndices => water[i] = water_before[i]

\* C10 witness: merge_overlapping has raised after a worker replaced a slot.
C10_Witness == MergeRaised /\ water # water_before

\* C11: the overlay datasets are selected one after another in argument
\* order; every selection after the first reads the base collection as
\* the merge before it left it, appended polygons included; the collection
\* is written once, after the merge of the last dataset, and the program then
\* ends with status 0; and when a selection or a merge has raised, nothing
\* is or has been written and the program ends with a non-zero status.
C11_SequentialThenSavedOnce ==
  /\ Len(processed) = (IF main = "select_overlap" THEN region - 1 ELSE region)
  /\ \A k \in 1..Len(processed) :
       /\ processed[k].region = k
       /\ processed[k].area = region_files[k]
       /\ k > 1 => processed[k].water = merged[k - 1]
  /\ Len(merged) <= Len(processed) /\ Len(processed) <= Len(merged) + 1
  /\ saved # <<>> =>
       /\ main = "exit"
       /\ Len(merged) = Len(region_files)
       /\ saved = <<merged[Len(merged)]>>
       /\ thrown = {}
  /\ main = "exit" => (saved = <<water>> /\ exit_status = {0})
  /\ main \in {"raised", "terminated"} => saved = <<>>
  /\ main = "terminated" => (exit_status # {} /\ 0 \notin exit_status)
  /\ thrown # {} => main \in {"raised", "terminated"}

\* C11 witness: three overlay datasets have been processed, the second one
\* extended the polygon that the first merge appended, the third one the
\* first polygon, and the collection has been written.
C11_Witness ==
  /\ main = "exit"
  /\ Len(region_files) = 3
  /\ Len(processed[2].water) > Len(processed[1].water)
  /\ Len(saved[1]) = 2
  /\ <<0, 1>> \in saved[1][1]
  /\ <<4, 3>> \in saved[1][2]

\* A parallel_for is running: its caller waits for it to end.
Running == main \in {"select_wait", "merge_wait"}

\* The size and the thread count of the running parallel_for.
CallSize == IF main = "select_wait" THEN Len(water) ELSE Len(overlap)

CallThreads ==
  IF main = "select_wait" THEN NumThreads(sel_threads) ELSE NumThreads(0)

\* The sub-ranges [lo[t], hi[t]) of the threads 0..k-1 split [0, size) as
\* claimed.
IsPartition(lo, hi, size, k) ==
  LET len(t) == hi[t] - lo[t]
  IN /\ lo[0] = 0 /\ hi[k - 1] = size
     /\ \A t \in 0..(k - 2) : hi[t] = lo[t + 1]
     /\ \A t \in 0..(k - 1) : lo[t] <= hi[t]
     /\ \A i \in 0..(size - 1) :
          Cardinality({t \in 0..(k - 1) : lo[t] <= i /\ i < hi[t]}) = 1
     /\ \A t, u \in 0..(k - 1) : len(t) - len(u) <= 1
     /\ {t \in 0..(k - 1) : \E u \in 0..(k - 1) : len(t) > len(u)}
          \in {0..((size % k) - 1), {}}
     /\ Cardinality({t \in 0..(k - 1) : len(t) = (size \div k) + 1}) = size % k

\* The sub-ranges that parallel_for computes split [0, size), for every
\* size up to MaxSize and every thread count from 2 to MaxCount.
SubRangesSplit ==
  \A size \in 2..MaxSize : \A k \in 2..MaxCount :
    IsPartition([t \in 0..(k - 1) |-> RangeStart(size, k, t)],
                [t \in 0..(k - 1) |-> RangeEnd(size, k, t)], size, k)

\* C12: for size > min_size (1 in both calls) and a thread count k >= 2,
\* parallel_for runs exactly k workers, on sub-ranges that are contiguous,
\* pairwise disjoint and cover [0, size), with lengths that differ by at
\* most one, the size mod k longer ones first; each worker stays in its
\* sub-range.  The same holds of the sub-ranges computed for every size
\* up to MaxSize and every thread count up to MaxCount.
C12_Partition ==
  /\ (Running /\ CallSize > 1 /\ CallThreads >= 2) =>
       /\ ~inline
       /\ Workers = 0..(CallThreads - 1)
       /\ IsPartition([t \in Workers |-> wk[t].i0], [t \in Workers |-> wk[t].i1],
                      CallSize, CallThreads)
       /\ \A t \in Workers : wk[t].i0 <= wk[t].ix /\ wk[t].ix <= wk[t].i1
  /\ SubRangesSplit

\* C12 witness: three base polygons were split between two threads, the
\* first thread getting two of them, and both threads have gone through
\* their sub-ranges.
C12_Witness ==
  /\ main = "select_wait" /\ ~inline
  /\ Len(water) = 3 /\ sel_threads = 2
  /\ \A t \in Workers : wk[t].pc = "done" /\ wk[t].ix = wk[t].i1
  /\ wk[0].i1 - wk[0].i0 = 2

NoIntersection ==
  \A id \in AreaIds : \A ix \in WaterIndices :
    ~Intersects(water[ix + 1], AreaPolygon(id))

\* C14: if no overlay polygon intersects any base polygon, then during the
\* selection and when it returns, with any thread count and interleaving,
\* no worker holds a record, the result is the empty sequence, and nothing
\* was inserted in the dedup set, which is empty.
C14_NothingSelected ==
  (main \in {"select_wait", "merge_overlapping"} /\ NoIntersection) =>
    /\ result = <<>>
    /\ \A t \in Workers : wk[t].local = <<>> /\ wk[t].matching_areas = <<>>
    /\ filtered_polygons = {}
    /\ insert_log = {}

\* C14 witness: a threaded selection has returned on an input without any
\* intersection, after the index gave candidates for a base polygon.
C14_Witness ==
  /\ SelectReturned /\ NoIntersection /\ ~inline
  /\ \E ix \in WaterIndices : RTreeQuery(Envelope(water[ix + 1])) # <<>>
  /\ \A t \in Workers : wk[t].pc = "done"

\* cascade_union, called on its own, has returned.
CascadeReturned == cu = "returned"

\* C15: cascade_union of the empty sequence returns the empty sequence, and
\* cascade_union of one polygon p returns exactly <<p>>; in both cases no
\* union is computed, neither before nor at the return.
C15_TrivialInputs ==
  /\ Len(polygons) <= 1 => union_log = <<>>
  /\ (CascadeReturned /\ Len(polygons) <= 1) => final_result = polygons

\* C15 witness: cascade_union has returned from a call on one polygon, one
\* that a union would have changed.
C15_Witness ==
  /\ CascadeReturned
  /\ Len(polygons) = 1
  /\ Components(polygons[1]) # <<polygons[1]>>

\* A polygon in one edge-connected part: a simple polygon.
Simple(p) == Components(p) = <<p>>

\* The sum of the areas of the polygons of a sequence.
SumOfAreas(ps) == MultiArea(ps)

\* C16: when cascade_union returns, the total area of its result is the
\* area of the set union of its inputs and is at most the sum of the
\* inputs' areas; for two disjoint simple polygons the result is two
\* polygons whose areas sum to the inputs' areas; for two or more inputs,
\* and for simple inputs, the polygons of the result do not overlap and
\* the union of the result with itself is the result.  The call made
\* step by step returns what the merge phase's cascade_union computes.
C16_AreaKept ==
  CascadeReturned =>
    /\ MultiArea(final_result) = Area(Cells(polygons))
    /\ MultiArea(final_result) <= SumOfAreas(polygons)
    /\ (/\ Len(polygons) = 2
        /\ Simple(polygons[1]) /\ Simple(polygons[2])
        /\ ~Intersects(polygons[1], polygons[2]))
         => /\ Len(final_result) = 2
            /\ MultiArea(final_result) = Area(polygons[1]) + Area(polygons[2])
    /\ (Len(polygons) >= 2 \/ \A i \in 1..Len(polygons) : Simple(polygons[i]))
         => /\ DisjointInteriors(final_result)
            /\ multi_polygon_union(final_result, final_result) = final_result
    /\ final_result = cascade_union(polygons)

\* C16 witness: cascade_union has returned from a call on three polygons
\* that overlap one another, with less area than the sum of their areas.
C16_Witness ==
  /\ CascadeReturned
  /\ Len(polygons) = 3
  /\ \A i, j \in 1..3 : polygons[i] \cap polygons[j] # {}
  /\ \A i, j \in 1..3 : i # j => polygons[i] # polygons[j]
  /\ MultiArea(final_result) < SumOfAreas(polygons)

\* The input of the end-to-end example with a hole: one base polygon, the
\* square [0,0]-[15,15] without the square [5,5]-[10,10], and one overlay
\* polygon, the square [5,5]-[10,10].
IsHoleExample ==
  /\ region_files = << <<Rect(1, 1, 1, 1)>> >>
  /\ processed # <<>>
  /\ processed[1].water = <<Rect(0, 0, 2, 2) \ {<<1, 1>>}>>

\* C17: on the example, the selection returns one record that claims the
\* overlay polygon for the base polygon, and after the merge the base
\* collection is one polygon, the whole square inside the outer ring: its
\* area is the area enclosed by the outer ring, the hole is closed.
C17_HoleClosed ==
  /\ (IsHoleExample /\ main \in {"merge_overlapping", "merge_wait", "append", "done"})
       => /\ overlap = <<[first |-> 0, second |-> <<0>>]>>
          /\ filtered_polygons = {0}
  /\ (IsHoleExample /\ main = "done")
       => /\ Len(water) = 1
          /\ water[1] = Rect(0, 0, 2, 2)
          /\ Area(water[1]) = Area(Rect(0, 0, 2, 2))
          /\ Area(water[1]) = Area(water_before[1]) + Area(AreaPolygon(0))

\* C17 witness: selection and merge have run to their end on the example.
C17_Witness == IsHoleExample /\ main = "done" /\ Area(water[1]) = 225

\* The selection on the first overlay dataset has ended, in whatever way.
FirstSelectionEnded == main \notin {"select_overlap", "select_wait"}

\* C18 (as claimed): a selection run on an overlay dataset whose index was
\* not built ends by raising an IndexNotBuilt error to its caller, with
\* no candidate examined, nothing claimed and no collection changed.
C18_IndexNotBuiltReported ==
  (~is_rtree_built /\ FirstSelectionEnded) =>
    /\ main \in {"raised", "terminated"}
    /\ \E e \in thrown : e[1] = "IndexNotBuilt"
    /\ filtered_polygons = {} /\ insert_log = {} /\ result = <<>>
    /\ water = processed[1].water

\* The overlay polygons of a match list.
Matches(second) == {second[j] : j \in 1..Len(second)}

\* C19: at every moment of a selection, an overlay polygon is in the match
\* list of the base polygon w (in the list being built, in a worker's
\* records or in the result) only if it intersects w and is not within w;
\* and when the selection returns without failure, every overlay polygon
\* that intersects some base polygon without being within it is in a
\* record, whatever the interleaving.
C19_EligibleOnlyAndAll ==
  /\ main \in {"select_wait", "merge_overlapping"} =>
       /\ \A r \in 1..Len(result) :
            \A id \in Matches(result[r].second) : EligibleFor(id, result[r].first)
       /\ \A t \in Workers :
            /\ \A id \in Matches(wk[t].matching_areas) : EligibleFor(id, wk[t].ix)
            /\ \A r \in 1..Len(wk[t].local) :
                 \A id \in Matches(wk[t].local[r].second) :
                   EligibleFor(id, wk[t].local[r].first)
  /\ SelectReturned =>
       \A id \in AreaIds :
         (\E ix \in WaterIndices : EligibleFor(id, ix)) => Occurrences(result, id) # {}

\* C19 witness: a threaded selection has returned; an overlay polygon that
\* two base polygons could claim is in a record, the other worker's insert
\* having failed.
C19_Witness ==
  /\ SelectReturned /\ ~inline
  /\ \E id \in AreaIds :
       /\ Cardinality({ix \in WaterIndices : EligibleFor(id, ix)}) >= 2
       /\ Occurrences(result, id) # {}
       /\ \E e \in insert_log : e.id = id /\ ~e.second

\* For the record rec and the base collection base given to the merge:
\* reduced = cascade_union(matches) and pieces = union(base[i], reduced[0]).
Reduced(rec) == cascade_union(Polygons(rec.second))

Pieces(rec, base) == union_(base[rec.first + 1], Reduced(rec)[1])

\* The polygons to append for a record: pieces[1..], then reduced[1..].
Extras(rec, base) == Tail(Pieces(rec, base)) \o Tail(Reduced(rec))

\* The extras of the records taken in the order given.
RECURSIVE ExtrasInOrder(_, _, _)
ExtrasInOrder(records, order, base) ==
  IF order = <<>> THEN <<>>
  ELSE Extras(records[Head(order)], base)
         \o ExtrasInOrder(records, Tail(order), base)

\* The orders in which n records can be taken.
Orders(n) ==
  {f \in [1..n -> 1..n] : \A i, j \in 1..n : f[i] = f[j] => i = j}

\* The polygons of the collection from position from + 1 on.
From(ps, from) == [j \in 1..(Len(ps) - from) |-> ps[from + j]]

\* merge_overlapping has returned.
MergeReturned == main = "done"

\* C20 (as claimed): after merge_overlapping, for every record (i, matches)
\* base[i] is pieces[0]; the polygons appended to the base collection are,
\* record after record in some order of the records, exactly pieces[1..]
\* followed by reduced[1..]; and the collection has grown by the number
\* of these extras.
C20_SlotsAndExtras ==
  MergeReturned =>
    /\ \A r \in 1..Len(overlap) :
         water[overlap[r].first + 1] = Pieces(overlap[r], water_before)[1]
    /\ \E order \in Orders(Len(overlap)) :
         From(water, Len(water_before)) = ExtrasInOrder(overlap, order, water_before)
    /\ Len(water) >= Len(water_before)

\* The merge phase: from the call of merge_overlapping's parallel_for to its
\* return or its failure.
InMerge == main \in {"merge_wait", "append"} \/ (main = "raised" /\ water_before # <<>>)

\* C21: while merge workers run, and until parallel_for has returned, no
\* polygon is appended to the base collection: the extras are in the queue
\* extra_polygons only, and every base index of a record is an index of
\* the collection; the queue is appended, whole and in its order, by the
\* calling thread after the workers are joined, and not at all when the
\* merge fails.
C21_AppendAfterJoin ==
  /\ InMerge =>
       /\ Len(water) = Len(water_before)
       /\ \A r \in 1..Len(overlap) : overlap[r].first < Len(water)
  /\ main = "append" => AllJoined
  /\ MergeReturned => From(water, Len(water_before)) = extra_polygons

\* C21 witness: a merge worker has queued a polygon to append while another
\* merge worker is still running.
C21_Witness ==
  /\ main = "merge_wait" /\ ~inline
  /\ extra_polygons # <<>>
  /\ \E t \in Workers : wk[t].pc \notin {"done", "failed"}

\* The workers that are appending to the selection result, or replacing
\* base slots and pushing to the queue of extras.
Accumulating == {t \in Workers : wk[t].pc \in {"result_insert", "apply"}}

\* C22: the result of the selection, the base slots and the queue of
\* extras are written by a worker that holds the coarse lock, and by one
\* worker at a time: the workers at these writes are the holders of the
\* lock, and there is never more than one.
C22_AccumulatorsLocked ==
  /\ Running => Accumulating = mutex
  /\ Cardinality(mutex) <= 1
  /\ Cardinality(Accumulating) <= 1

\* C22 witness: a merge worker that has replaced a base slot is at its
\* next write, while another merge worker waits for the coarse lock.
C22_Witness ==
  /\ main = "merge_wait"
  /\ \E t, u \in Workers :
       /\ wk[t].pc = "apply" /\ wk[t].k > 1 /\ t \in mutex
       /\ wk[u].pc = "lock" /\ wk[u].local # <<>>

\* C23: during and after merge_overlapping, the base collection is no
\* shorter than when the call was made and the polygon at every index that
\* is in no record is the one that was there, at the same place; the
\* index of the base collection is the one that main built when it loaded
\* the collection: the merge neither rebuilds nor modifies it.
C23_MergeFrame ==
  /\ (InMerge \/ MergeReturned) =>
       /\ Len(water) >= Len(water_before)
       /\ \A i \in 1..Len(water_before) :
            (i - 1) \notin RecordIndices => water[i] = water_before[i]
  /\ processed # <<>> => water_rtree = BuildRTree(processed[1].water)

\* C23 witness: merge_overlapping has returned after it replaced a slot and
\* appended a polygon; a polygon that is in no record is unchanged, and the
\* index no longer describes the collection.
C23_Witness ==
  /\ MergeReturned
  /\ Len(water) > Len(water_before)
  /\ \E i \in 1..Len(water_before) :
       (i - 1) \in RecordIndices /\ water[i] # water_before[i]
  /\ \E i \in 1..Len(water_before) : (i - 1) \notin RecordIndices
  /\ water_rtree # BuildRTree(water)

\* The records that select_overlap holds: those in result and those that
\* the workers have not yet inserted in it.
RECURSIVE LocalsFrom(_)
LocalsFrom(ts) ==
  IF ts = {} THEN <<>>
  ELSE LET t == CHOOSE u \in ts : \A v \in ts : u <= v
       IN (IF wk[t].pc \in {"done", "failed"} THEN <<>> ELSE wk[t].local)
            \o LocalsFrom(ts \ {t})

RecordsHeld ==
  IF main = "select_wait" THEN result \o LocalsFrom(Workers) ELSE overlap

\* C24: every record that select_overlap builds or returns has a match list
\* that is not empty and a base index in [0, n), and no two of them have
\* the same base index.
C24_RecordsDistinct ==
  /\ \A r \in 1..Len(RecordsHeld) :
       /\ RecordsHeld[r].second # <<>>
       /\ RecordsHeld[r].first \in 0..(Len(water) - 1)
  /\ \A r, q \in 1..Len(RecordsHeld) :
       RecordsHeld[r].first = RecordsHeld[q].first => r = q

\* C24 witness: select_overlap, run by several threads, has returned two
\* records or more, and a water polygon that was examined is in none.
C24_Witness ==
  /\ SelectReturned
  /\ ~inline
  /\ Cardinality(Workers) >= 2
  /\ Len(overlap) >= 2
  /\ Len(overlap) < Len(water)

\* The operands of the logged union e are two elements of the queue it was
\* taken from, and no other element of that queue has a smaller area than
\* either of them.
TwoLeast(e) ==
  \E i, j \in 1..Len(e.queue) :
    /\ i # j
    /\ e.queue[i] = e.mpoly1
    /\ e.queue[j] = e.mpoly2
    /\ MultiArea(e.mpoly1) <= MultiArea(e.mpoly2)
    /\ \A k \in 1..Len(e.queue) \ {i, j} :
         MultiArea(e.queue[k]) >= MultiArea(e.mpoly2)

\* C25: cascade_union of n >= 2 polygons has computed exactly n - 1 unions
\* when it returns, with one element left in the queue, never more than
\* n - 1 before that, and the operands of every union are the two elements
\* of least area of the queue at the time of the union.
C25_SmallestFirst ==
  /\ \A u \in 1..Len(union_log) : TwoLeast(union_log[u])
  /\ Len(polygons) >= 2 =>
       /\ Len(union_log) <= Len(polygons) - 1
       /\ cu = "while" => Len(polygon_queue) = Len(polygons) - Len(union_log)
       /\ CascadeReturned =>
            /\ Len(union_log) = Len(polygons) - 1
            /\ Len(polygon_queue) = 1

\* C25 witness: cascade_union has returned the union of three polygons of
\* three different areas, the first of which was not the smallest.
C25_Witness ==
  /\ CascadeReturned
  /\ Len(polygons) = 3
  /\ Len(union_log) = 2
  /\ Area(polygons[1]) > Area(polygons[2])
  /\ Area(polygons[2]) > Area(polygons[3])

\* The record at position r of result was produced by worker t.
ProducedBy(r, t) ==
  /\ wk[t].i0 <= result[r].first
  /\ result[r].first < wk[t].i1

\* C26: in the sequence that select_overlap builds and returns, the records
\* of one worker's sub-range are next to each other and in strictly
\* ascending order of base index.
C26_BatchesContiguous ==
  main \in {"select_wait", "merge_overlapping"} =>
    \A t \in Workers : \A r, q \in 1..Len(result) :
      (r < q /\ ProducedBy(r, t) /\ ProducedBy(q, t)) =>
        /\ result[r].first < result[q].first
        /\ \A m \in r..q : ProducedBy(m, t)

\* C26 witness: select_overlap has returned three records; two of them are
\* one thread's batch, and the batch of the thread with the later sub-range
\* comes first.
C26_Witness ==
  /\ SelectReturned
  /\ ~inline
  /\ Len(result) = 3
  /\ result[1].first > result[2].first
  /\ \E t \in Workers : ProducedBy(2, t) /\ ProducedBy(3, t)

\* The region covered by the overlay polygons of the records.
ClaimedRegion ==
  UNION {Cells(Polygons(overlap[r].second)) : r \in 1..Len(overlap)}

\* C27 (as claimed): when merge_overlapping has returned, the region that
\* the base collection covers is the region it covered at the call united
\* with the regions of the overlay polygons of all records.
C27_RegionKept ==
  MergeReturned => Cells(water) = Cells(water_before) \cup ClaimedRegion

\* The worker invocations of the running parallel_for that are given the
\* index i.
InvocationsOf(i) == {t \in Workers : wk[t].i0 <= i /\ i < wk[t].i1}

\* C28 (as claimed): parallel_for never divides by zero, and every index of
\* [0, size) is given to exactly one worker invocation, whatever the size
\* and the thread count, the count 0 with a hardware thread count of 0
\* included.
C28_NoDivisionByZero ==
  /\ main # "division_by_zero"
  /\ Running =>
       \A i \in 0..(CallSize - 1) : Cardinality(InvocationsOf(i)) = 1

\* No thread holds the two locks at once, a worker that has ended holds
\* none, and none is held once parallel_for has returned or raised.
LocksReleased ==
  /\ mutex \cap mutex_ = {}
  /\ \A t \in Workers :
       wk[t].pc \in {"done", "failed"} => t \notin (mutex \cup mutex_)
  /\ main \in {"merge_overlapping", "append", "raised", "done", "exit",
               "terminated"} => (mutex \cup mutex_) = {}

\* parallel_for has returned to select_overlap or to merge_overlapping, or
\* has raised, with every worker ended.
ParallelForEnded ==
  /\ main \in {"merge_overlapping", "append", "raised"}
  /\ AllJoined

\* C29: no thread ever holds the lock of the dedup set and the coarse lock
\* together, every lock taken is released, and under a fair scheduler,
\* the overlay index being built so that every query returns, a running
\* parallel_for leads to the end of all its workers and to its return or
\* its raise.
C29_NoDeadlock ==
  /\ []LocksReleased
  /\ (Running /\ is_rtree_built) ~> ParallelForEnded

\* C29 witness: the parallel_for of merge_overlapping has returned after
\* two threads took the coarse lock in turn, in a run where two threads of
\* select_overlap had taken the lock of the dedup set for the same overlay
\* polygon.
C29_Witness ==
  /\ main = "append"
  /\ ~inline
  /\ Cardinality({t \in Workers : wk[t].local # <<>>}) >= 2
  /\ \E e, f \in insert_log : e.id = f.id /\ e.thread # f.thread
  /\ mutex = {} /\ mutex_ = {}

====
